---- MODULE Spec2Model ----
(***************************************************************************)
(* command-unquoted: the Debug rendering of Unquoted(&Command) and the     *)
(* Display rendering of Quoted(&OsStr), src/src/lib.rs.                    *)
(*                                                                         *)
(* A character is a one-character string (U+0060 and U+FFFD are written   *)
(* by name).  A word is a sequence of units: a unit is a character, or     *)
(* Invalid, a byte that is not valid UTF-8.                                *)
(* Text written to the formatter is a sequence of characters.              *)
(***************************************************************************)
EXTENDS Integers, Sequences, FiniteSets, TLC

VARIABLES pc, word, envs, program, args, i, f

vars == <<pc, word, envs, program, args, i, f>>

----------------------------------------------------------------------------
(* Bounds of the model. *)

\* Longest word handed to Quoted in SpecQuoted.
MaxLen == 3
\* Longest argument list and environment list of a Command in Spec.
MaxArgs == 2
MaxEnvs == 2

----------------------------------------------------------------------------
(* Units, characters and std's conversions of OsStr. *)

\* The character U+0060, the grave accent that opens and closes the output.
Backtick == "U+0060"
\* A byte of an OsStr that is not part of any valid UTF-8 sequence (0xFF).
Invalid == "0xFF"
\* U+FFFD, the character to_string_lossy puts in place of an invalid byte.
Replacement == "U+FFFD"

\* OsStr::to_string_lossy: every invalid byte becomes U+FFFD.
to_string_lossy(w) ==
    [k \in 1..Len(w) |-> IF w[k] = Invalid THEN Replacement ELSE w[k]]

\* OsStr::to_str is Some(text) only for valid UTF-8.
to_str_is_some(w) == \A k \in 1..Len(w) : w[k] # Invalid

\* Option<&OsStr> as yielded by Command::get_envs.
None == <<>>
Some(v) == <<v>>

----------------------------------------------------------------------------
(* The reserved word table and its lookup. *)

\* The table with the Bash word appended after the POSIX words, out of order.
RESERVED_COMMAND_WORDS_TimeLast ==
    << <<"c","a","s","e">>, <<"d","o">>, <<"d","o","n","e">>,
       <<"e","l","i","f">>, <<"e","l","s","e">>, <<"e","s","a","c">>,
       <<"f","i">>,
       <<"f","o","r">>, <<"f","u","n","c","t","i","o","n">>, <<"i","f">>,
       <<"i","n">>, <<"s","e","l","e","c","t">>, <<"t","h","e","n">>,
       <<"u","n","t","i","l">>, <<"w","h","i","l","e">>,
       <<"t","i","m","e">> >>

RESERVED_COMMAND_WORDS ==
    << <<"c","a","s","e">>, <<"d","o">>, <<"d","o","n","e">>,
       <<"e","l","i","f">>, <<"e","l","s","e">>, <<"e","s","a","c">>,
       <<"f","i">>,
       <<"f","o","r">>, <<"f","u","n","c","t","i","o","n">>, <<"i","f">>,
       <<"i","n">>, <<"s","e","l","e","c","t">>, <<"t","h","e","n">>,
       <<"t","i","m","e">>,
       <<"u","n","t","i","l">>, <<"w","h","i","l","e">> >>

\* Printable ASCII in code order, from 32 (space) to 126 (~).
Ascii ==
    << " ", "!", "\"", "#", "$", "%", "&", "'", "(", ")", "*", "+", ",", "-",
       ".", "/", "0", "1", "2", "3", "4", "5", "6", "7", "8", "9", ":", ";",
       "<", "=", ">", "?", "@", "A", "B", "C", "D", "E", "F", "G", "H", "I",
       "J", "K", "L", "M", "N", "O", "P", "Q", "R", "S", "T", "U", "V", "W",
       "X", "Y", "Z", "[", "\\", "]", "^", "_", Backtick, "a", "b", "c", "d", "e",
       "f", "g", "h", "i", "j", "k", "l", "m", "n", "o", "p", "q", "r", "s",
       "t", "u", "v", "w", "x", "y", "z", "{", "|", "}", "~" >>

\* The code point of every character of the model.
CodePoints ==
    [c \in {Ascii[k] : k \in 1..Len(Ascii)} \cup {"\t", "\n", Replacement} |->
        IF c = "\t" THEN 9
        ELSE IF c = "\n" THEN 10
        ELSE IF c = Replacement THEN 65533
        ELSE 31 + (CHOOSE k \in 1..Len(Ascii) : Ascii[k] = c)]

\* The code point of a character; str's Ord compares by it.
Code(c) == CodePoints[c]

RECURSIVE str_cmp_from(_, _, _)
str_cmp_from(a, b, k) ==
    IF k > Len(a) /\ k > Len(b) THEN "Equal"
    ELSE IF k > Len(a) THEN "Less"
    ELSE IF k > Len(b) THEN "Greater"
    ELSE IF Code(a[k]) < Code(b[k]) THEN "Less"
    ELSE IF Code(a[k]) > Code(b[k]) THEN "Greater"
    ELSE str_cmp_from(a, b, k + 1)

\* <str as Ord>::cmp: lexicographic.
str_cmp(a, b) == str_cmp_from(a, b, 1)

RECURSIVE binary_search_from(_, _, _, _)
binary_search_from(table, x, lo, hi) ==
    IF lo >= hi THEN FALSE
    ELSE LET mid == lo + ((hi - lo) \div 2)
             c   == str_cmp(table[mid + 1], x)
         IN  IF c = "Equal" THEN TRUE
             ELSE IF c = "Less" THEN binary_search_from(table, x, mid + 1, hi)
             ELSE binary_search_from(table, x, lo, mid)

\* slice::binary_search(x).is_ok(), indices lo..hi counted from 0.
binary_search_is_ok(table, x) == binary_search_from(table, x, 0, Len(table))

----------------------------------------------------------------------------
(* Quoted: Display. *)

SINGLE_QUOTE == "'"

SPECIAL_WITHIN_DOUBLE == {"$", Backtick, "\\", "\"", "@", "!"}

\* The list with '=' added, which the source leaves out on purpose.
OTHER_SPECIAL_WithEquals ==
    {"|", "&", ";", "<", ">", "(", ")", " ", "\t", "\n",
     "*", "?", "[", "#", "~", "%", "=",
     "]", "{", "}"}

\* The list without the Bash glob and brace characters.
OTHER_SPECIAL_NoBashGlob ==
    {"|", "&", ";", "<", ">", "(", ")", " ", "\t", "\n",
     "*", "?", "[", "#", "~", "%"}

OTHER_SPECIAL ==
    {"|", "&", ";", "<", ">", "(", ")", " ", "\t", "\n",
     "*", "?", "[", "#", "~", "%",
     "]", "{", "}"}

\* str::contains over a set of characters.
contains(s, chars) == \E k \in 1..Len(s) : s[k] \in chars

has_single_quote(s) == contains(s, {SINGLE_QUOTE})

has_special_within_double(s) == contains(s, SPECIAL_WITHIN_DOUBLE)

has_special(s) ==
    \/ has_single_quote(s)
    \/ has_special_within_double(s)
    \/ contains(s, OTHER_SPECIAL)

\* The loop writing \' for a single quote without closing and reopening.
RECURSIVE escape_chars_Backslash(_)
escape_chars_Backslash(s) ==
    IF s = <<>> THEN <<>>
    ELSE (IF Head(s) = SINGLE_QUOTE
          THEN <<"\\", "'">>
          ELSE <<Head(s)>>) \o escape_chars_Backslash(Tail(s))

\* The loop over s.chars(): a single quote is written as '\'' .
RECURSIVE escape_chars(_)
escape_chars(s) ==
    IF s = <<>> THEN <<>>
    ELSE (IF Head(s) = SINGLE_QUOTE
          THEN <<"'", "\\", "'", "'">>
          ELSE <<Head(s)>>) \o escape_chars(Tail(s))

\* fmt without the is_empty test.
Quoted_NoEmptyCase(w) ==
    LET s == to_string_lossy(w)
    IN  IF has_single_quote(s) /\ ~has_special_within_double(s)
        THEN <<"\"">> \o s \o <<"\"">>
        ELSE IF has_special(s)
        THEN IF has_single_quote(s)
             THEN <<"'">> \o escape_chars(s) \o <<"'">>
             ELSE <<"'">> \o s \o <<"'">>
        ELSE s

\* fmt choosing double quotes for every word with a single quote.
Quoted_DoubleWheneverQuote(w) ==
    IF Len(w) = 0 THEN <<"'", "'">>
    ELSE
    LET s == to_string_lossy(w)
    IN  IF has_single_quote(s)
        THEN <<"\"">> \o s \o <<"\"">>
        ELSE IF has_special(s)
        THEN <<"'">> \o s \o <<"'">>
        ELSE s

\* fmt without the double-quote branch.
Quoted_NeverDouble(w) ==
    IF Len(w) = 0 THEN <<"'", "'">>
    ELSE
    LET s == to_string_lossy(w)
    IN  IF has_special(s)
        THEN IF has_single_quote(s)
             THEN <<"'">> \o escape_chars(s) \o <<"'">>
             ELSE <<"'">> \o s \o <<"'">>
        ELSE s

\* <Quoted as Display>::fmt: the text written for the word w.
Quoted(w) ==
    IF Len(w) = 0 THEN <<"'", "'">>
    ELSE
    LET s == to_string_lossy(w)
    IN  IF has_single_quote(s) /\ ~has_special_within_double(s)
        THEN <<"\"">> \o s \o <<"\"">>
        ELSE IF has_special(s)
        THEN IF has_single_quote(s)
             THEN <<"'">> \o escape_chars(s) \o <<"'">>
             ELSE <<"'">> \o s \o <<"'">>
        ELSE s

----------------------------------------------------------------------------
(* Unquoted: Debug.  One operator per statement of fmt. *)

\* The loop body writing the name of a pair whose value is absent.
env_write_Always(out, pair) ==
    IF pair[2] # None
    THEN out \o Quoted(pair[1]) \o <<"=">> \o Quoted(pair[2][1]) \o <<" ">>
    ELSE out \o Quoted(pair[1]) \o <<"=">> \o <<" ">>

\* The body of the loop over get_envs(): pair is <<name, value_opt>>.
env_write(out, pair) ==
    IF pair[2] # None
    THEN out \o Quoted(pair[1]) \o <<"=">> \o Quoted(pair[2][1]) \o <<" ">>
    ELSE out

\* A lookup that accepts a word starting with a reserved word.
is_reserved_Prefix(p) ==
    /\ to_str_is_some(p)
    /\ \E k \in 1..Len(RESERVED_COMMAND_WORDS) :
          /\ Len(RESERVED_COMMAND_WORDS[k]) <= Len(p)
          /\ SubSeq(p, 1, Len(RESERVED_COMMAND_WORDS[k])) = RESERVED_COMMAND_WORDS[k]

\* program.to_str().filter(|s| RESERVED_COMMAND_WORDS.binary_search(s).is_ok())
is_reserved(p) ==
    /\ to_str_is_some(p)
    /\ binary_search_is_ok(RESERVED_COMMAND_WORDS, p)

program_write(out, p) ==
    IF is_reserved(p)
    THEN out \o <<"'">> \o p \o <<"'">>
    ELSE out \o Quoted(p)

\* The loop body with the space after the argument.
arg_write_TrailingSpace(out, arg) == out \o Quoted(arg) \o <<" ">>

\* The body of the loop over get_args().
arg_write(out, arg) == out \o <<" ">> \o Quoted(arg)

RECURSIVE write_envs(_, _)
write_envs(out, es) ==
    IF es = <<>> THEN out ELSE write_envs(env_write(out, Head(es)), Tail(es))

RECURSIVE write_args(_, _)
write_args(out, as) ==
    IF as = <<>> THEN out ELSE write_args(arg_write(out, Head(as)), Tail(as))

\* <Unquoted as Debug>::fmt as a function of what the Command yields.
UnquotedFmt(es, p, as) ==
    write_args(program_write(write_envs(<<Backtick>>, es), p), as) \o <<Backtick>>

----------------------------------------------------------------------------
(* Inputs. *)

SeqsUpTo(S, n) == UNION {[1..k -> S] : k \in 0..n}

\* The units words are drawn from: the single quote, every character the
\* source lists, a plain letter, '=' (which the source leaves unquoted on
\* purpose) and an invalid byte.
Units ==
    {"'", "$", Backtick, "\\", "\"", "@", "!",
     "|", "&", ";", "<", ">", "(", ")", " ", "\t", "\n",
     "*", "?", "[", "#", "~", "%", "]", "{", "}",
     "a", "=", Invalid}

QuotedWords == SeqsUpTo(Units, MaxLen)

\* The reserved words, words next to them in order, and words that Quoted
\* treats in each of its ways.
ProgramWords ==
    { <<"c","a","s","e">>, <<"d","o">>, <<"d","o","n","e">>,
      <<"e","l","i","f">>, <<"e","l","s","e">>, <<"e","s","a","c">>,
      <<"f","i">>, <<"f","o","r">>, <<"f","u","n","c","t","i","o","n">>,
      <<"i","f">>, <<"i","n">>, <<"s","e","l","e","c","t">>,
      <<"t","h","e","n">>, <<"t","i","m","e">>, <<"u","n","t","i","l">>,
      <<"w","h","i","l","e">>,
      <<>>, <<"a">>, <<"c","a","s">>, <<"c","a","s","e","s">>,
      <<"C","a","s","e">>, <<"z","z">>, <<"i","f",Invalid>>,
      <<"a"," ","b">>, <<"n","'","t">>, <<"$","'">> }

ArgWords == { <<>>, <<"i","f">>, <<"a"," ","b">> }

EnvNames == { <<"A">>, <<"B"," ">> }

\* <<name, value_opt>>: get_envs yields None for a removed variable.
EnvPairs ==
    { << <<"A">>, None >>, << <<"A">>, Some(<<>>) >>,
      << <<"B"," ">>, Some(<<"'","s">>) >> }

----------------------------------------------------------------------------
(* SpecQuoted: Quoted(word).to_string(). *)

InitQuoted ==
    /\ pc = "word"
    /\ word \in QuotedWords
    /\ envs = <<>>
    /\ program = <<>>
    /\ args = <<>>
    /\ i = 0
    /\ f = <<>>

QuotedFmt ==
    /\ pc = "word"
    /\ f' = Quoted(word)
    /\ pc' = "quoted"
    /\ UNCHANGED <<word, envs, program, args, i>>

NextQuoted == QuotedFmt

SpecQuoted == InitQuoted /\ [][NextQuoted]_vars

----------------------------------------------------------------------------
(* Spec: format!("{:?}", Unquoted(&command)), statement by statement. *)

Init ==
    /\ pc = "open"
    /\ word = <<>>
    /\ envs \in SeqsUpTo(EnvPairs, MaxEnvs)
    /\ program \in ProgramWords
    /\ args \in SeqsUpTo(ArgWords, MaxArgs)
    /\ i = 0
    /\ f = <<>>

FmtOpen ==
    /\ pc = "open"
    /\ f' = f \o <<Backtick>>
    /\ pc' = "envs"
    /\ i' = 1
    /\ UNCHANGED <<word, envs, program, args>>

FmtEnv ==
    /\ pc = "envs"
    /\ i <= Len(envs)
    /\ f' = env_write(f, envs[i])
    /\ i' = i + 1
    /\ UNCHANGED <<pc, word, envs, program, args>>

FmtProgram ==
    /\ pc = "envs"
    /\ i > Len(envs)
    /\ f' = program_write(f, program)
    /\ pc' = "args"
    /\ i' = 1
    /\ UNCHANGED <<word, envs, program, args>>

FmtArg ==
    /\ pc = "args"
    /\ i <= Len(args)
    /\ f' = arg_write(f, args[i])
    /\ i' = i + 1
    /\ UNCHANGED <<pc, word, envs, program, args>>

FmtClose ==
    /\ pc = "args"
    /\ i > Len(args)
    /\ f' = f \o <<Backtick>>
    /\ pc' = "done"
    /\ UNCHANGED <<word, envs, program, args, i>>

Next == FmtOpen \/ FmtEnv \/ FmtProgram \/ FmtArg \/ FmtClose

Spec == Init /\ [][Next]_vars

----------------------------------------------------------------------------
(* The vocabulary of the properties, written from their statements. *)

\* The characters that stay special inside double quotes: $ ` \ " @ !
DoubleQuoteUnsafe == {"$", Backtick, "\\", "\"", "@", "!"}

\* The other special characters:
\* | & ; < > ( ) space tab newline * ? [ # ~ % ] { }
OtherSpecial ==
    {"|", "&", ";", "<", ">", "(", ")", " ", "\t", "\n",
     "*", "?", "[", "#", "~", "%", "]", "{", "}"}

\* The reserved word set.
ReservedWords ==
    { <<"c","a","s","e">>, <<"d","o">>, <<"d","o","n","e">>,
      <<"e","l","i","f">>, <<"e","l","s","e">>, <<"e","s","a","c">>,
      <<"f","i">>, <<"f","o","r">>, <<"f","u","n","c","t","i","o","n">>,
      <<"i","f">>, <<"i","n">>, <<"s","e","l","e","c","t">>,
      <<"t","h","e","n">>, <<"t","i","m","e">>, <<"u","n","t","i","l">>,
      <<"w","h","i","l","e">> }

\* The characters of a text.
CharsOf(t) == {t[k] : k \in 1..Len(t)}

\* The word as text: a Word is text already normalised lossily, which is
\* what Quoted classifies and writes.
Text == to_string_lossy(word)

InSingleQuotes(t) == <<"'">> \o t \o <<"'">>

InDoubleQuotes(t) == <<"\"">> \o t \o <<"\"">>

\* The first n characters of t with every single quote replaced by '\'' .
RECURSIVE QuoteReplaced(_, _)
QuoteReplaced(t, n) ==
    IF n = 0 THEN <<>>
    ELSE QuoteReplaced(t, n - 1)
             \o (IF t[n] = "'" THEN <<"'", "\\", "'", "'">> ELSE <<t[n]>>)

\* Reading quoted text t from position k: mode is "out" outside quotes, "sq"
\* after an opening single quote, "dq" after an opening double quote.
RECURSIVE ReadFrom(_, _, _)
ReadFrom(t, k, mode) ==
    IF k > Len(t) THEN <<>>
    ELSE IF mode = "sq"
    THEN IF t[k] = "'" THEN ReadFrom(t, k + 1, "out")
         ELSE <<t[k]>> \o ReadFrom(t, k + 1, "sq")
    ELSE IF mode = "dq"
    THEN IF t[k] = "\"" THEN ReadFrom(t, k + 1, "out")
         ELSE <<t[k]>> \o ReadFrom(t, k + 1, "dq")
    ELSE IF t[k] = "'" THEN ReadFrom(t, k + 1, "sq")
    ELSE IF t[k] = "\"" THEN ReadFrom(t, k + 1, "dq")
    ELSE IF t[k] = "\\" /\ k < Len(t) /\ t[k + 1] = "'"
    THEN <<"'">> \o ReadFrom(t, k + 2, "out")
    ELSE <<t[k]>> \o ReadFrom(t, k + 1, "out")

Unquote(t) == ReadFrom(t, 1, "out")

\* The text of the first n environment pairs: those with a present value.
RECURSIVE EnvText(_, _)
EnvText(es, n) ==
    IF n = 0 THEN <<>>
    ELSE EnvText(es, n - 1)
             \o (IF es[n][2] = None THEN <<>>
                 ELSE Quoted(es[n][1]) \o <<"=">> \o Quoted(es[n][2][1])
                          \o <<" ">>)

\* The rendering of the program word.
ProgramText(p) ==
    IF p \in ReservedWords THEN InSingleQuotes(p) ELSE Quoted(p)

\* The text of the first n arguments.
RECURSIVE ArgText(_, _)
ArgText(as, n) ==
    IF n = 0 THEN <<>>
    ELSE ArgText(as, n - 1) \o <<" ">> \o Quoted(as[n])

\* es with the pair e put in after its first k elements.
InsertAt(es, k, e) == SubSeq(es, 1, k) \o <<e>> \o SubSeq(es, k + 1, Len(es))

Present(pair) == pair[2] # None

----------------------------------------------------------------------------
(* Properties of Quoted, under SpecQuoted. *)

\* C1: a non-empty word with a single quote and none of $ ` \ " @ ! is
\* written as a double quote, the word unchanged, a double quote, whatever
\* other special characters it has.
C1_DoubleQuotedVerbatim ==
    (/\ pc = "quoted"
     /\ Len(word) > 0
     /\ "'" \in CharsOf(Text)
     /\ CharsOf(Text) \cap DoubleQuoteUnsafe = {})
        => f = InDoubleQuotes(Text)

\* A word with a single quote and another special character, double quoted.
C1_Witness ==
    /\ pc = "quoted"
    /\ "'" \in CharsOf(Text)
    /\ CharsOf(Text) \cap OtherSpecial # {}
    /\ CharsOf(Text) \cap DoubleQuoteUnsafe = {}
    /\ f = InDoubleQuotes(Text)

\* C2: a word with a single quote and one of $ ` \ " @ ! is written as a
\* single quote, its characters in order with each single quote replaced by
\* '\'' and every other character unchanged, and a single quote.
C2_SingleQuotedEscaped ==
    (/\ pc = "quoted"
     /\ "'" \in CharsOf(Text)
     /\ CharsOf(Text) \cap DoubleQuoteUnsafe # {})
        => f = InSingleQuotes(QuoteReplaced(Text, Len(Text)))

\* $ between two single quotes: both are replaced.
C2_Witness ==
    /\ pc = "quoted"
    /\ word = <<"'", "$", "'">>
    /\ f = <<"'", "'", "\\", "'", "'", "$", "'", "\\", "'", "'", "'">>

\* C3: a word with no single quote and at least one character of
\* $ ` \ " @ ! or | & ; < > ( ) space tab newline * ? [ # ~ % ] { } is
\* written as a single quote, the word unchanged, a single quote.
C3_SingleQuotedVerbatim ==
    (/\ pc = "quoted"
     /\ "'" \notin CharsOf(Text)
     /\ CharsOf(Text) \cap (DoubleQuoteUnsafe \cup OtherSpecial) # {})
        => f = InSingleQuotes(Text)

\* A word whose only special character is a closing bracket or brace.
C3_Witness ==
    /\ pc = "quoted"
    /\ CharsOf(Text) \cap {"]", "{", "}"} # {}
    /\ CharsOf(Text) \subseteq {"]", "{", "}", "a"}
    /\ f = InSingleQuotes(Text)

\* C4: a non-empty word with no single quote and none of the characters of
\* C3 is written as it is, with no quotes and no escaping.
C4_PlainUnchanged ==
    (/\ pc = "quoted"
     /\ Len(word) > 0
     /\ "'" \notin CharsOf(Text)
     /\ CharsOf(Text) \cap (DoubleQuoteUnsafe \cup OtherSpecial) = {})
        => f = Text

\* A word with a letter and '=', written as it is.
C4_Witness ==
    /\ pc = "quoted"
    /\ {"a", "="} \subseteq CharsOf(Text)
    /\ f = Text

\* C5: the empty word is written as two single quotes.
C5_EmptyWord ==
    (pc = "quoted" /\ word = <<>>) => f = <<"'", "'">>

\* The empty word has been written.
C5_Witness ==
    pc = "quoted" /\ word = <<>> /\ Len(f) = 2

\* C10: reading what Quoted wrote, with single-quoted and double-quoted
\* text literal and \' outside quotes one single quote, gives the word back.
C10_ReadBack ==
    pc = "quoted" => Unquote(f) = Text

\* A backslash right before a single quote is read back.
C10_Witness ==
    /\ pc = "quoted"
    /\ word = <<"\\", "'", "a">>
    /\ Unquote(f) = word

----------------------------------------------------------------------------
(* Properties of Unquoted, under Spec. *)

\* C6 as stated: the step that writes the program word writes the word in
\* single quotes if and only if the word is one of the reserved words.
C6_SingleQuotedIffReserved ==
    [][(pc = "envs" /\ pc' = "args")
          => ((f' = f \o InSingleQuotes(program))
                 <=> program \in ReservedWords)]_vars

\* C6, amended: the step that writes the program word writes a reserved
\* word in single quotes and any other word as Quoted writes it.
C6_ReservedElseQuoted ==
    [][(pc = "envs" /\ pc' = "args")
          => f' = f \o (IF program \in ReservedWords
                        THEN InSingleQuotes(program)
                        ELSE Quoted(program))]_vars

\* The reserved word time has been written in single quotes.
C6_Witness ==
    /\ pc = "args"
    /\ i = 1
    /\ program = <<"t","i","m","e">>
    /\ envs = <<>>
    /\ f = <<Backtick, "'", "t", "i", "m", "e", "'">>

\* C7: the finished output is a backtick, the text of each present
\* environment pair in order, the program word's rendering, a space and the
\* quoted text of each argument in order, and a backtick.
C7_OutputLayout ==
    pc = "done"
        => f = <<Backtick>> \o EnvText(envs, Len(envs)) \o ProgramText(program)
                   \o ArgText(args, Len(args)) \o <<Backtick>>

\* Two different present pairs and two different arguments were rendered.
C7_Witness ==
    /\ pc = "done"
    /\ Len(envs) = 2 /\ Present(envs[1]) /\ Present(envs[2])
    /\ envs[1] # envs[2]
    /\ Len(args) = 2 /\ args[1] # args[2]

\* C8: putting a pair with an absent value anywhere into the environment
\* sequence gives the same output, and so does leaving out the absent pairs.
C8_AbsentPairInvisible ==
    pc = "done"
        => /\ \A k \in 0..Len(envs) : \A n \in EnvNames :
                 UnquotedFmt(InsertAt(envs, k, <<n, None>>), program, args) = f
           /\ UnquotedFmt(SelectSeq(envs, Present), program, args) = f

\* An absent pair before a present one was rendered.
C8_Witness ==
    /\ pc = "done"
    /\ Len(envs) = 2 /\ ~Present(envs[1]) /\ Present(envs[2])

\* C9: each entry of the reserved word table is less than the next, so the
\* binary search finds a program word exactly if the table has it.
C9_TableSorted ==
    /\ \A k \in 1..(Len(RESERVED_COMMAND_WORDS) - 1) :
          str_cmp(RESERVED_COMMAND_WORDS[k], RESERVED_COMMAND_WORDS[k + 1]) = "Less"
    /\ to_str_is_some(program)
          => (binary_search_is_ok(RESERVED_COMMAND_WORDS, program)
                 <=> \E k \in 1..Len(RESERVED_COMMAND_WORDS) :
                        RESERVED_COMMAND_WORDS[k] = program)

\* The last entry of the table was looked up and written.
C9_Witness ==
    /\ pc = "done"
    /\ program = RESERVED_COMMAND_WORDS[Len(RESERVED_COMMAND_WORDS)]
    /\ is_reserved(program)

====
